---- MODULE Spec2Model ----
(***************************************************************************)
(* Blog backend (posts and comments) of src/default: the relational store, *)
(* the serializers' validation, the permission classes and the four views  *)
(* routed by src/default/urls.py.  Spec handles one HTTP request at a time *)
(* from its arrival to its response, SpecClock does so while time passes,  *)
(* and SpecRace lets several handlers run between lookup and write.        *)
(***************************************************************************)
EXTENDS Integers, Sequences, FiniteSets, TLC

VARIABLES posts, comments, nextPostId, nextCommentId, now, handlers

vars == <<posts, comments, nextPostId, nextCommentId, now, handlers>>

(* ------------------------------ bounds -------------------------------- *)

\* Posts and comments ever created in one run.
MaxPosts == 2
MaxComments == 2

\* The last reading of the clock in one run.
MaxClock == 1

\* Requests handled at the same time.
MaxHandlers == 2

(* ----------------------------- constants ------------------------------ *)

TitleMaxLength == 200
TitleMinLength == 2
PostContentMinLength == 5
CommentContentMinLength == 2

HTTP_200_OK == 200
HTTP_201_CREATED == 201
HTTP_204_NO_CONTENT == 204
HTTP_400_BAD_REQUEST == 400
HTTP_403_FORBIDDEN == 403
HTTP_404_NOT_FOUND == 404
HTTP_405_METHOD_NOT_ALLOWED == 405

(* ------------------------------ requests ------------------------------ *)

Users == {"u1", "u2"}
AnonymousUser == "anon"
Requesters == Users \cup {AnonymousUser}

Methods == {"GET", "POST", "PUT", "PATCH", "DELETE"}
SAFE_METHODS == {"GET", "HEAD", "OPTIONS"}

\* Markers of a key the JSON body does not carry: a string field, a user, an id.
NoField == <<"absent">>
NoUser == "nobody"
NoId == 0

\* Strings are sequences of characters.
Repeat(c, n) == [i \in 1..n |-> c]

TitleInputs ==
  { NoField,
    <<" ", "a", " ">>,
    <<"a", "b">>,
    <<" ", "a", "b", "c", " ">>,
    Repeat("a", TitleMaxLength + 1) }

PostContentInputs ==
  { NoField,
    <<" ", "a", "b", "c", "d", " ">>,
    <<" ", "a", "b", "c", "d", "e", " ">> }

CommentContentInputs ==
  { NoField,
    <<" ", "a", " ">>,
    <<"a", "b">>,
    <<" ", "a", "b", "c", " ">> }

PostIds == 1..(MaxPosts + 1)
CommentIds == 1..(MaxComments + 1)

\* A body that is not JSON at all: request.data raises ParseError.
MalformedPostBody ==
  [json |-> FALSE, title |-> NoField, content |-> NoField, author |-> NoUser]
MalformedCommentBody ==
  [json |-> FALSE, content |-> NoField, author |-> NoUser, post |-> NoId]

\* Bodies sent to the post views; "author" is a key the serializer does not declare.
PostBodies ==
  [json : {TRUE}, title : TitleInputs, content : PostContentInputs,
   author : {NoUser, "u2"}]
    \cup {MalformedPostBody}

\* Bodies sent to the comment views; "author" and "post" are undeclared keys.
CommentBodies ==
  [json : {TRUE}, content : CommentContentInputs, author : {NoUser}, post : {NoId}]
    \cup [json : {TRUE}, content : CommentContentInputs, author : {"u2"}, post : {2}]
    \cup {MalformedCommentBody}

EmptyPostBody ==
  [json |-> TRUE, title |-> NoField, content |-> NoField, author |-> NoUser]
EmptyCommentBody ==
  [json |-> TRUE, content |-> NoField, author |-> NoUser, post |-> NoId]

\* Requests routed to posts/ (no id in the path): a body comes with POST.
PostListRequests ==
  { r \in [method : Methods, user : Requesters, id : {NoId}, data : PostBodies] :
      r.method # "POST" => r.data = EmptyPostBody }

\* Requests routed to posts/<pk>/: a body comes with PUT and PATCH.
PostDetailRequests ==
  { r \in [method : Methods, user : Requesters, id : PostIds, data : PostBodies] :
      r.method \notin {"PUT", "PATCH"} => r.data = EmptyPostBody }

\* Requests routed to posts/<post_id>/comments/: a body comes with POST.
PostCommentsRequests ==
  { r \in [method : Methods, user : Requesters, id : PostIds, data : CommentBodies] :
      r.method # "POST" => r.data = EmptyCommentBody }

\* Requests routed to comments/<comment_id>/: a body comes with PUT.
CommentDetailRequests ==
  { r \in [method : Methods, user : Requesters, id : CommentIds,
           data : CommentBodies] :
      r.method # "PUT" => r.data = EmptyCommentBody }

(* ------------------------------ strings ------------------------------- *)

\* str.strip(): the string without its leading and trailing whitespace.
strip(s) ==
  IF \A i \in 1..Len(s) : s[i] = " "
    THEN <<>>
    ELSE LET lo == CHOOSE i \in 1..Len(s) :
                     s[i] # " " /\ \A j \in 1..(i - 1) : s[j] = " "
             hi == CHOOSE i \in 1..Len(s) :
                     s[i] # " " /\ \A j \in (i + 1)..Len(s) : s[j] = " "
         IN SubSeq(s, lo, hi)

(* ------------------------------ the store ----------------------------- *)

\* The database as the views see it: both tables, their id sequences, and the
\* clock: now is what timezone.now() returns when the request reads it first,
\* elapsed how far the clock has moved on when one save reads it a second time.
DB ==
  [posts |-> posts, comments |-> comments, nextPostId |-> nextPostId,
   nextCommentId |-> nextCommentId, now |-> now, elapsed |-> 0]

\* The same database in a request during which the clock moves on by elapsed.
During(db, elapsed) == [db EXCEPT !.elapsed = elapsed]

\* post.comments: the ids of the comments whose foreign key is the post.
CommentsOf(db, pid) == { c \in DOMAIN db.comments : db.comments[c].post = pid }

\* Every order of the rows S that ORDER BY admits, key mapping each row to its
\* sort value (ties in any order).
Orderings(S, key, descending) ==
  { seq \in [1..Cardinality(S) -> S] :
      /\ \A i, j \in 1..Cardinality(S) : i # j => seq[i] # seq[j]
      /\ \A i, j \in 1..Cardinality(S) :
           i < j => IF descending THEN key[seq[i]] >= key[seq[j]]
                                  ELSE key[seq[i]] <= key[seq[j]] }

\* The posts ordered by ['created_at'], the oldest first.
PostOrderings_OldestFirst(db) ==
  Orderings(DOMAIN db.posts, [p \in DOMAIN db.posts |-> db.posts[p].created_at], FALSE)

\* Post.Meta.ordering = ['-created_at'].
PostOrderings(db) ==
  Orderings(DOMAIN db.posts, [p \in DOMAIN db.posts |-> db.posts[p].created_at], TRUE)

\* Comment.Meta.ordering = ['created_at'], over one post's comments.
CommentOrderings(db, pid) ==
  Orderings(CommentsOf(db, pid),
            [c \in CommentsOf(db, pid) |-> db.comments[c].created_at], FALSE)

\* serializer.save() on a new Post: created_at (auto_now_add) and updated_at
\* (auto_now) are filled by pre_save one after the other, each from its own
\* call of timezone.now().
InsertPost(db, title, content, author) ==
  [db EXCEPT
     !.posts = [p \in DOMAIN db.posts \cup {db.nextPostId} |->
                  IF p = db.nextPostId
                    THEN [title |-> title, content |-> content, author |-> author,
                          created_at |-> db.now,
                          updated_at |-> db.now + db.elapsed]
                    ELSE db.posts[p]],
     !.nextPostId = db.nextPostId + 1,
     !.now = db.now + db.elapsed]

\* An update that stamps created_at as well, as auto_now would.
UpdatePost_StampsCreatedAt(db, pid, validated) ==
  [db EXCEPT
     !.posts[pid] =
        [title |-> IF "title" \in DOMAIN validated
                     THEN validated["title"] ELSE db.posts[pid].title,
         content |-> IF "content" \in DOMAIN validated
                       THEN validated["content"] ELSE db.posts[pid].content,
         author |-> db.posts[pid].author,
         created_at |-> db.now,
         updated_at |-> db.now]]

\* serializer.save() on an existing Post: the validated attributes, then auto_now.
UpdatePost(db, pid, validated) ==
  [db EXCEPT
     !.posts[pid] =
        [title |-> IF "title" \in DOMAIN validated
                     THEN validated["title"] ELSE db.posts[pid].title,
         content |-> IF "content" \in DOMAIN validated
                       THEN validated["content"] ELSE db.posts[pid].content,
         author |-> db.posts[pid].author,
         created_at |-> db.posts[pid].created_at,
         updated_at |-> db.now]]

\* A delete of the post's row alone, as with on_delete=DO_NOTHING.
DeletePost_NoCascade(db, pid) ==
  [db EXCEPT !.posts = [p \in DOMAIN db.posts \ {pid} |-> db.posts[p]]]

\* A delete that takes along only the comments the post's author wrote.
DeletePost_OwnCommentsOnly(db, pid) ==
  [db EXCEPT
     !.posts = [p \in DOMAIN db.posts \ {pid} |-> db.posts[p]],
     !.comments =
        [c \in DOMAIN db.comments \
           {d \in CommentsOf(db, pid) : db.comments[d].author = db.posts[pid].author}
         |-> db.comments[c]]]

\* post.delete(): the row and, on_delete=CASCADE, every comment that references it.
DeletePost(db, pid) ==
  [db EXCEPT
     !.posts = [p \in DOMAIN db.posts \ {pid} |-> db.posts[p]],
     !.comments = [c \in DOMAIN db.comments \ CommentsOf(db, pid) |-> db.comments[c]]]

\* A new comment that also saves its post, refreshing the post's updated_at.
InsertComment_TouchesPost(db, pid, content, author) ==
  [db EXCEPT
     !.comments = [c \in DOMAIN db.comments \cup {db.nextCommentId} |->
                     IF c = db.nextCommentId
                       THEN [post |-> pid, author |-> author, content |-> content,
                             created_at |-> db.now]
                       ELSE db.comments[c]],
     !.nextCommentId = db.nextCommentId + 1,
     !.posts[pid].updated_at = db.now]

\* serializer.save(author=..., post=...) on a new Comment: auto_now_add.
InsertComment(db, pid, content, author) ==
  [db EXCEPT
     !.comments = [c \in DOMAIN db.comments \cup {db.nextCommentId} |->
                     IF c = db.nextCommentId
                       THEN [post |-> pid, author |-> author, content |-> content,
                             created_at |-> db.now]
                       ELSE db.comments[c]],
     !.nextCommentId = db.nextCommentId + 1]

\* An update of a Comment that is never written back.
UpdateComment_NotSaved(db, cid, validated) == db

\* serializer.save() on an existing Comment.
UpdateComment(db, cid, validated) ==
  [db EXCEPT !.comments[cid].content = validated["content"]]

\* comment.delete().
DeleteComment(db, cid) ==
  [db EXCEPT !.comments = [c \in DOMAIN db.comments \ {cid} |-> db.comments[c]]]

(* ---------------------------- serializers ----------------------------- *)

\* The outcome of one field's validation.
Rejected == [ok |-> FALSE, value |-> <<>>]
Accepted(value) == [ok |-> TRUE, value |-> value]

\* PostCreateUpdateSerializer.validate_title.
validate_title(value) ==
  IF Len(strip(value)) < TitleMinLength THEN Rejected ELSE Accepted(value)

\* validate_content rejecting a content of exactly the minimum length.
validate_post_content_Exclusive(value) ==
  IF Len(strip(value)) <= PostContentMinLength THEN Rejected ELSE Accepted(value)

\* PostCreateUpdateSerializer.validate_content.
validate_post_content(value) ==
  IF Len(strip(value)) < PostContentMinLength THEN Rejected ELSE Accepted(value)

\* validate_content without its return statement: the field validates to None.
validate_comment_content_NoReturn(value) ==
  IF Len(strip(value)) < CommentContentMinLength THEN Rejected ELSE Accepted(<<>>)

\* CommentCreateSerializer.validate_content.
validate_comment_content(value) ==
  IF Len(strip(value)) < CommentContentMinLength THEN Rejected ELSE Accepted(value)

\* The serializer field with trim_whitespace off.
CharFieldValue_NoTrim(data, maxLength) ==
  IF strip(data) = <<>> THEN Rejected
  ELSE IF maxLength > 0 /\ Len(data) > maxLength THEN Rejected
  ELSE Accepted(data)

\* The serializer field the ModelSerializer builds for a CharField or TextField
\* (maxLength 0: none): a blank value is rejected, the value is stripped
\* (trim_whitespace), then the max_length validator runs.
CharFieldValue(data, maxLength) ==
  LET value == strip(data)
  IN IF value = <<>> THEN Rejected
     ELSE IF maxLength > 0 /\ Len(value) > maxLength THEN Rejected
     ELSE Accepted(value)

\* One declared field of a serializer: required unless the update is partial, run
\* through the field and then through the serializer's validate_<field>.
\* present: whether the field reaches validated_data.
TitleField(data, partial) ==
  IF data = NoField THEN [ok |-> partial, present |-> FALSE, value |-> <<>>]
  ELSE LET f == CharFieldValue(data, TitleMaxLength)
           v == IF f.ok THEN validate_title(f.value) ELSE Rejected
       IN [ok |-> v.ok, present |-> v.ok, value |-> v.value]

PostContentField(data, partial) ==
  IF data = NoField THEN [ok |-> partial, present |-> FALSE, value |-> <<>>]
  ELSE LET f == CharFieldValue(data, 0)
           v == IF f.ok THEN validate_post_content(f.value) ELSE Rejected
       IN [ok |-> v.ok, present |-> v.ok, value |-> v.value]

CommentContentField(data, partial) ==
  IF data = NoField THEN [ok |-> partial, present |-> FALSE, value |-> <<>>]
  ELSE LET f == CharFieldValue(data, 0)
           v == IF f.ok THEN validate_comment_content(f.value) ELSE Rejected
       IN [ok |-> v.ok, present |-> v.ok, value |-> v.value]

\* PostCreateUpdateSerializer(data=...).is_valid(): fields = ['title', 'content'];
\* errors is keyed by the failing fields, validated holds the accepted ones.
PostCreateUpdateSerializer(data, partial) ==
  LET t == TitleField(data.title, partial)
      c == PostContentField(data.content, partial)
      errors == {f \in {"title"} : ~t.ok} \cup {f \in {"content"} : ~c.ok}
      fields == {f \in {"title"} : t.present} \cup {f \in {"content"} : c.present}
  IN [errors |-> errors,
      validated |-> [f \in fields |-> IF f = "title" THEN t.value ELSE c.value]]

\* CommentCreateSerializer(data=...).is_valid(): fields = ['content'].
CommentCreateSerializer(data, partial) ==
  LET c == CommentContentField(data.content, partial)
  IN [errors |-> {f \in {"content"} : ~c.ok},
      validated |-> [f \in {g \in {"content"} : c.present} |-> c.value]]

\* CommentSerializer(comment).data.
CommentSerializer(db, cid) ==
  [id |-> cid, content |-> db.comments[cid].content,
   author |-> db.comments[cid].author, created_at |-> db.comments[cid].created_at]

\* CommentSerializer(comments, many=True).data, in each order the queryset admits.
CommentListData(db, pid) ==
  { [i \in DOMAIN seq |-> CommentSerializer(db, seq[i])] :
      seq \in CommentOrderings(db, pid) }

\* PostListSerializer(post).data.
PostListSerializer(db, pid) ==
  [id |-> pid, title |-> db.posts[pid].title, author |-> db.posts[pid].author,
   created_at |-> db.posts[pid].created_at, updated_at |-> db.posts[pid].updated_at,
   comments_count |-> Cardinality(CommentsOf(db, pid))]

\* PostListSerializer(queryset, many=True).data, in each order the queryset admits.
PostListData(db) ==
  { [i \in DOMAIN seq |-> PostListSerializer(db, seq[i])] : seq \in PostOrderings(db) }

\* PostDetailSerializer(post).data; comments holds each order the relation admits.
PostDetailSerializer(db, pid) ==
  [id |-> pid, title |-> db.posts[pid].title, content |-> db.posts[pid].content,
   author |-> db.posts[pid].author, created_at |-> db.posts[pid].created_at,
   updated_at |-> db.posts[pid].updated_at, comments |-> CommentListData(db, pid)]

\* PostCreateUpdateSerializer(post).data.
PostCreateUpdateData(db, pid) ==
  [title |-> db.posts[pid].title, content |-> db.posts[pid].content]

(* ---------------------------- permissions ----------------------------- *)

\* permissions.IsAuthenticated.has_permission.
IsAuthenticated(request) == request.user # AnonymousUser

\* IsAuthenticatedOrReadOnly letting the anonymous requester write.
IsAuthenticatedOrReadOnly_AllowAny(request) == TRUE

\* permissions.IsAuthenticatedOrReadOnly.has_permission.
IsAuthenticatedOrReadOnly(request) ==
  request.method \in SAFE_METHODS \/ request.user # AnonymousUser

\* IsAuthorOrReadOnly with the author comparison left out.
IsAuthorOrReadOnly_AnyUser(request, obj) == TRUE

\* IsAuthorOrReadOnly.has_object_permission.
IsAuthorOrReadOnly(request, obj) ==
  IF request.method \in SAFE_METHODS THEN TRUE ELSE obj.author = request.user

(* -------------------------------- views ------------------------------- *)

NoBody == <<>>

\* A response, with the store as the request leaves it.
Response(status, errors, body, db) ==
  [status |-> status, errors |-> errors, body |-> body, db |-> db]

\* The framework's rejections: PermissionDenied / NotAuthenticated, Http404,
\* MethodNotAllowed and ParseError each answer {"detail": ...}.
PermissionDenied(db) == Response(HTTP_403_FORBIDDEN, {"detail"}, NoBody, db)
NotFound(db) == Response(HTTP_404_NOT_FOUND, {"detail"}, NoBody, db)
MethodNotAllowed(db) == Response(HTTP_405_METHOD_NOT_ALLOWED, {"detail"}, NoBody, db)
ParseError(db) == Response(HTTP_400_BAD_REQUEST, {"detail"}, NoBody, db)

\* perform_create taking the author from the request body when it names one.
perform_create_ClientAuthor(db, request, validated) ==
  InsertPost(db, validated["title"], validated["content"],
             IF request.data.author # NoUser THEN request.data.author ELSE request.user)

\* PostListCreateView.perform_create: serializer.save(author=self.request.user).
perform_create(db, request, validated) ==
  InsertPost(db, validated["title"], validated["content"], request.user)

\* PostListCreateView (posts/): permission_classes are checked before the method
\* is dispatched; GET lists, POST creates.
PostListCreateView(db, request) ==
  IF ~IsAuthenticatedOrReadOnly(request) THEN PermissionDenied(db)
  ELSE IF request.method = "GET"
    THEN Response(HTTP_200_OK, {}, PostListData(db), db)
  ELSE IF request.method = "POST"
    THEN IF ~request.data.json THEN ParseError(db)
         ELSE LET serializer == PostCreateUpdateSerializer(request.data, FALSE)
              IN IF serializer.errors # {}
                   THEN Response(HTTP_400_BAD_REQUEST, serializer.errors, NoBody, db)
                   ELSE LET saved == perform_create(db, request, serializer.validated)
                        IN Response(HTTP_201_CREATED, {},
                                    PostCreateUpdateData(saved, db.nextPostId), saved)
  ELSE MethodNotAllowed(db)

\* PostDetailView.get_permissions, checked by has_permission before dispatch
\* (IsAuthorOrReadOnly inherits has_permission, which allows).
PostDetailHasPermission(request) ==
  IF request.method \in {"PUT", "PATCH", "DELETE"}
    THEN IsAuthenticated(request)
    ELSE IsAuthenticatedOrReadOnly(request)

\* PostDetailView.get_permissions, checked by has_object_permission in get_object
\* (IsAuthenticated and IsAuthenticatedOrReadOnly inherit it, and it allows).
PostDetailHasObjectPermission(request, obj) ==
  IF request.method \in {"PUT", "PATCH", "DELETE"}
    THEN IsAuthorOrReadOnly(request, obj)
    ELSE TRUE

\* PostDetailView saving the fields that passed although another one failed.
PostDetailView_SavesValidFields(db, request) ==
  IF ~PostDetailHasPermission(request) THEN PermissionDenied(db)
  ELSE IF request.method \notin {"GET", "PUT", "PATCH", "DELETE"}
    THEN MethodNotAllowed(db)
  ELSE IF request.id \notin DOMAIN db.posts THEN NotFound(db)
  ELSE IF ~PostDetailHasObjectPermission(request, db.posts[request.id])
    THEN PermissionDenied(db)
  ELSE IF request.method = "GET"
    THEN Response(HTTP_200_OK, {}, PostDetailSerializer(db, request.id), db)
  ELSE IF request.method = "DELETE"
    THEN Response(HTTP_204_NO_CONTENT, {}, NoBody, DeletePost(db, request.id))
  ELSE IF ~request.data.json THEN ParseError(db)
  ELSE LET serializer ==
             PostCreateUpdateSerializer(request.data, request.method = "PATCH")
           saved == UpdatePost(db, request.id, serializer.validated)
       IN IF serializer.errors # {}
            THEN Response(HTTP_400_BAD_REQUEST, serializer.errors, NoBody, saved)
            ELSE Response(HTTP_200_OK, {},
                          PostCreateUpdateData(saved, request.id), saved)

\* PostDetailView (posts/<pk>/): permissions, dispatch, get_object (404, then the
\* object permissions), then retrieve / update / partial_update / destroy.
PostDetailView(db, request) ==
  IF ~PostDetailHasPermission(request) THEN PermissionDenied(db)
  ELSE IF request.method \notin {"GET", "PUT", "PATCH", "DELETE"}
    THEN MethodNotAllowed(db)
  ELSE IF request.id \notin DOMAIN db.posts THEN NotFound(db)
  ELSE IF ~PostDetailHasObjectPermission(request, db.posts[request.id])
    THEN PermissionDenied(db)
  ELSE IF request.method = "GET"
    THEN Response(HTTP_200_OK, {}, PostDetailSerializer(db, request.id), db)
  ELSE IF request.method = "DELETE"
    THEN Response(HTTP_204_NO_CONTENT, {}, NoBody, DeletePost(db, request.id))
  ELSE IF ~request.data.json THEN ParseError(db)
  ELSE LET serializer ==
             PostCreateUpdateSerializer(request.data, request.method = "PATCH")
       IN IF serializer.errors # {}
            THEN Response(HTTP_400_BAD_REQUEST, serializer.errors, NoBody, db)
            ELSE LET saved == UpdatePost(db, request.id, serializer.validated)
                 IN Response(HTTP_200_OK, {},
                             PostCreateUpdateData(saved, request.id), saved)

\* post_comments listing by Comment.objects.filter(post_id=...), without the lookup
\* of the post on GET.
post_comments_ListWithoutLookup(db, request) ==
  IF ~IsAuthenticatedOrReadOnly(request) THEN PermissionDenied(db)
  ELSE IF request.method \notin {"GET", "POST"} THEN MethodNotAllowed(db)
  ELSE IF request.method = "GET"
    THEN Response(HTTP_200_OK, {}, CommentListData(db, request.id), db)
  ELSE IF request.id \notin DOMAIN db.posts THEN NotFound(db)
  ELSE IF ~request.data.json THEN ParseError(db)
  ELSE LET serializer == CommentCreateSerializer(request.data, FALSE)
       IN IF serializer.errors # {}
            THEN Response(HTTP_400_BAD_REQUEST, serializer.errors, NoBody, db)
            ELSE LET saved == InsertComment(db, request.id,
                                            serializer.validated["content"],
                                            request.user)
                 IN Response(HTTP_201_CREATED, {},
                             CommentSerializer(saved, db.nextCommentId), saved)

\* post_comments (posts/<post_id>/comments/): api_view(['GET', 'POST']) with
\* permission_classes([IsAuthenticatedOrReadOnly]), then the function's body.
post_comments(db, request) ==
  IF ~IsAuthenticatedOrReadOnly(request) THEN PermissionDenied(db)
  ELSE IF request.method \notin {"GET", "POST"} THEN MethodNotAllowed(db)
  ELSE IF request.id \notin DOMAIN db.posts THEN NotFound(db)
  ELSE IF request.method = "GET"
    THEN Response(HTTP_200_OK, {}, CommentListData(db, request.id), db)
  ELSE IF ~request.data.json THEN ParseError(db)
  ELSE LET serializer == CommentCreateSerializer(request.data, FALSE)
       IN IF serializer.errors # {}
            THEN Response(HTTP_400_BAD_REQUEST, serializer.errors, NoBody, db)
            ELSE LET saved == InsertComment(db, request.id,
                                            serializer.validated["content"],
                                            request.user)
                 IN Response(HTTP_201_CREATED, {},
                             CommentSerializer(saved, db.nextCommentId), saved)

\* comment_detail with the author comparison made after the PUT payload is validated.
comment_detail_ValidatesFirst(db, request) ==
  IF ~IsAuthenticated(request) THEN PermissionDenied(db)
  ELSE IF request.method \notin {"PUT", "DELETE"} THEN MethodNotAllowed(db)
  ELSE IF request.id \notin DOMAIN db.comments THEN NotFound(db)
  ELSE IF request.method = "PUT" /\ ~request.data.json THEN ParseError(db)
  ELSE IF /\ request.method = "PUT"
          /\ CommentCreateSerializer(request.data, FALSE).errors # {}
    THEN Response(HTTP_400_BAD_REQUEST,
                  CommentCreateSerializer(request.data, FALSE).errors, NoBody, db)
  ELSE IF db.comments[request.id].author # request.user
    THEN Response(HTTP_403_FORBIDDEN, {"error"}, NoBody, db)
  ELSE IF request.method = "PUT"
    THEN LET saved == UpdateComment(db, request.id,
                                    CommentCreateSerializer(request.data, FALSE).validated)
         IN Response(HTTP_200_OK, {}, CommentSerializer(saved, request.id), saved)
  ELSE Response(HTTP_204_NO_CONTENT, {}, NoBody, DeleteComment(db, request.id))

\* comment_detail (comments/<comment_id>/): api_view(['PUT', 'DELETE']) with
\* permission_classes([IsAuthenticated]), then the function's body.
comment_detail(db, request) ==
  IF ~IsAuthenticated(request) THEN PermissionDenied(db)
  ELSE IF request.method \notin {"PUT", "DELETE"} THEN MethodNotAllowed(db)
  ELSE IF request.id \notin DOMAIN db.comments THEN NotFound(db)
  ELSE IF db.comments[request.id].author # request.user
    THEN Response(HTTP_403_FORBIDDEN, {"error"}, NoBody, db)
  ELSE IF request.method = "PUT"
    THEN IF ~request.data.json THEN ParseError(db)
         ELSE LET serializer == CommentCreateSerializer(request.data, FALSE)
              IN IF serializer.errors # {}
                   THEN Response(HTTP_400_BAD_REQUEST, serializer.errors, NoBody, db)
                   ELSE LET saved == UpdateComment(db, request.id, serializer.validated)
                        IN Response(HTTP_200_OK, {},
                                    CommentSerializer(saved, request.id), saved)
  ELSE Response(HTTP_204_NO_CONTENT, {}, NoBody, DeleteComment(db, request.id))

\* urlpatterns: the view each route names.
Views == {"post-list-create", "post-detail", "post-comments", "comment-detail"}

urlpatterns(view, db, request) ==
  CASE view = "post-list-create" -> PostListCreateView(db, request)
    [] view = "post-detail" -> PostDetailView(db, request)
    [] view = "post-comments" -> post_comments(db, request)
    [] view = "comment-detail" -> comment_detail(db, request)

\* The requests each route receives.
RequestsTo(view) ==
  CASE view = "post-list-create" -> PostListRequests
    [] view = "post-detail" -> PostDetailRequests
    [] view = "post-comments" -> PostCommentsRequests
    [] view = "comment-detail" -> CommentDetailRequests

(* ------------------------------- actions ------------------------------ *)

\* The requests being handled at the same time, one per worker; a worker holds the
\* request and the instance its lookup loaded until it writes.
Handlers == 1..MaxHandlers

NoInstance == <<>>

Idle ==
  [pc |-> "idle", view |-> "none",
   request |-> [method |-> "GET", user |-> AnonymousUser, id |-> NoId,
                data |-> EmptyPostBody],
   instance |-> NoInstance]

\* The id sequences stop at the bounds: no row is created past them.
WithinBounds(db) ==
  db.nextPostId <= MaxPosts + 1 /\ db.nextCommentId <= MaxComments + 1

\* A request to posts/ is handled; the store is the one its response leaves.
PostListCreate ==
  \E request \in PostListRequests :
    \E response \in {PostListCreateView(DB, request)} :
      /\ WithinBounds(response.db)
      /\ posts' = response.db.posts
      /\ comments' = response.db.comments
      /\ nextPostId' = response.db.nextPostId
      /\ nextCommentId' = response.db.nextCommentId
      /\ now' = response.db.now
      /\ UNCHANGED handlers

\* A request to posts/<pk>/ is handled.
PostDetail ==
  \E request \in PostDetailRequests :
    \E response \in {PostDetailView(DB, request)} :
      /\ WithinBounds(response.db)
      /\ posts' = response.db.posts
      /\ comments' = response.db.comments
      /\ nextPostId' = response.db.nextPostId
      /\ nextCommentId' = response.db.nextCommentId
      /\ now' = response.db.now
      /\ UNCHANGED handlers

\* A request to posts/<post_id>/comments/ is handled.
PostComments ==
  \E request \in PostCommentsRequests :
    \E response \in {post_comments(DB, request)} :
      /\ WithinBounds(response.db)
      /\ posts' = response.db.posts
      /\ comments' = response.db.comments
      /\ nextPostId' = response.db.nextPostId
      /\ nextCommentId' = response.db.nextCommentId
      /\ now' = response.db.now
      /\ UNCHANGED handlers

\* A request to comments/<comment_id>/ is handled.
CommentDetail ==
  \E request \in CommentDetailRequests :
    \E response \in {comment_detail(DB, request)} :
      /\ WithinBounds(response.db)
      /\ posts' = response.db.posts
      /\ comments' = response.db.comments
      /\ nextPostId' = response.db.nextPostId
      /\ nextCommentId' = response.db.nextCommentId
      /\ now' = response.db.now
      /\ UNCHANGED handlers

\* The migrated, empty database.
Init ==
  /\ posts = <<>>
  /\ comments = <<>>
  /\ nextPostId = 1
  /\ nextCommentId = 1
  /\ now = 0
  /\ handlers = [h \in Handlers |-> Idle]

Next == PostListCreate \/ PostDetail \/ PostComments \/ CommentDetail

Spec == Init /\ [][Next]_vars

(* --------------------------- the running clock ------------------------- *)

\* The same views while time passes.  Texts play no part in the timestamps: the
\* requests that move the store carry one valid and one invalid body.
ClockPostBodies ==
  { b \in PostBodies :
      /\ b.json /\ b.author = NoUser
      /\ b.title = <<"a", "b">>
      /\ b.content # NoField }

ClockCommentBodies ==
  { b \in CommentBodies :
      /\ b.json /\ b.author = NoUser
      /\ b.content \in {<<" ", "a", " ">>, <<"a", "b">>} }

\* How far the clock moves between the two reads of one save.
ClockSteps == 0..1

\* The requests of each route with those bodies.
TimedPostListRequests ==
  { r \in PostListRequests : r.data \in ClockPostBodies \cup {EmptyPostBody} }
TimedPostDetailRequests ==
  { r \in PostDetailRequests : r.data \in ClockPostBodies \cup {EmptyPostBody} }
TimedPostCommentsRequests ==
  { r \in PostCommentsRequests : r.data \in ClockCommentBodies \cup {EmptyCommentBody} }
TimedCommentDetailRequests ==
  { r \in CommentDetailRequests : r.data \in ClockCommentBodies \cup {EmptyCommentBody} }

TimedPostListCreate ==
  \E request \in TimedPostListRequests, elapsed \in ClockSteps :
    \E response \in {PostListCreateView(During(DB, elapsed), request)} :
      /\ WithinBounds(response.db)
      /\ response.db.now <= MaxClock
      /\ posts' = response.db.posts
      /\ comments' = response.db.comments
      /\ nextPostId' = response.db.nextPostId
      /\ nextCommentId' = response.db.nextCommentId
      /\ now' = response.db.now
      /\ UNCHANGED handlers

TimedPostDetail ==
  \E request \in TimedPostDetailRequests :
    \E response \in {PostDetailView(DB, request)} :
      /\ WithinBounds(response.db)
      /\ posts' = response.db.posts
      /\ comments' = response.db.comments
      /\ nextPostId' = response.db.nextPostId
      /\ nextCommentId' = response.db.nextCommentId
      /\ now' = response.db.now
      /\ UNCHANGED handlers

TimedPostComments ==
  \E request \in TimedPostCommentsRequests :
    \E response \in {post_comments(DB, request)} :
      /\ WithinBounds(response.db)
      /\ posts' = response.db.posts
      /\ comments' = response.db.comments
      /\ nextPostId' = response.db.nextPostId
      /\ nextCommentId' = response.db.nextCommentId
      /\ now' = response.db.now
      /\ UNCHANGED handlers

TimedCommentDetail ==
  \E request \in TimedCommentDetailRequests :
    \E response \in {comment_detail(DB, request)} :
      /\ WithinBounds(response.db)
      /\ posts' = response.db.posts
      /\ comments' = response.db.comments
      /\ nextPostId' = response.db.nextPostId
      /\ nextCommentId' = response.db.nextCommentId
      /\ now' = response.db.now
      /\ UNCHANGED handlers

\* Time passes between two requests.
Tick ==
  /\ now < MaxClock
  /\ now' = now + 1
  /\ UNCHANGED <<posts, comments, nextPostId, nextCommentId, handlers>>

NextClock ==
  TimedPostListCreate \/ TimedPostDetail \/ TimedPostComments
    \/ TimedCommentDetail \/ Tick

SpecClock == Init /\ [][NextClock]_vars

(* ------------------------- concurrent requests ------------------------ *)

\* The same views handled by several workers at once.  A handler looks its
\* target up (get_object / get_object_or_404, with the ownership check) in one
\* step and writes in a later one; whatever other handlers write in between is
\* in the store when it does.  The requests are writes with a valid body.
RacePostBodies ==
  { b \in ClockPostBodies : PostCreateUpdateSerializer(b, FALSE).errors = {} }

RaceCommentBodies ==
  { b \in ClockCommentBodies : CommentCreateSerializer(b, FALSE).errors = {} }

RacePostListRequests ==
  { r \in PostListRequests :
      r.method = "POST" /\ r.user \in Users /\ r.data \in RacePostBodies }

RacePostDetailRequests ==
  { r \in PostDetailRequests :
      /\ r.method \in {"PUT", "DELETE"} /\ r.user \in Users
      /\ r.data \in RacePostBodies \cup {EmptyPostBody} }

RacePostCommentsRequests ==
  { r \in PostCommentsRequests :
      r.method = "POST" /\ r.user \in Users /\ r.data \in RaceCommentBodies }

RaceCommentDetailRequests ==
  { r \in CommentDetailRequests :
      /\ r.method \in {"PUT", "DELETE"} /\ r.user \in Users
      /\ r.data \in RaceCommentBodies \cup {EmptyCommentBody} }

\* The handler got past its permission checks, its lookup and its ownership
\* check: the response it is heading for is that of a write.
PassesLookup(view, db, request) ==
  urlpatterns(view, db, request).status
    \in {HTTP_200_OK, HTTP_201_CREATED, HTTP_204_NO_CONTENT}

\* Model.save() of a Post loaded earlier: an UPDATE of the row with that primary
\* key from the instance's attributes and, when no row was updated, an INSERT of
\* the instance (created_at is then stamped anew).
SavePost(db, pid, instance, validated) ==
  [db EXCEPT
     !.posts =
        [p \in DOMAIN db.posts \cup {pid} |->
           IF p # pid THEN db.posts[p]
           ELSE [title |-> IF "title" \in DOMAIN validated
                             THEN validated["title"] ELSE instance.title,
                 content |-> IF "content" \in DOMAIN validated
                               THEN validated["content"] ELSE instance.content,
                 author |-> instance.author,
                 created_at |-> IF pid \in DOMAIN db.posts
                                  THEN instance.created_at ELSE db.now,
                 updated_at |-> db.now]]]

\* post.delete() of a Post loaded earlier: DELETE of its comments and of the row,
\* by primary key, whatever is stored by then.
DeleteLoadedPost(db, pid) ==
  IF pid \in DOMAIN db.posts THEN DeletePost(db, pid) ELSE db

\* serializer.save(author=..., post=post) with a Post loaded earlier: the INSERT is
\* refused (IntegrityError) when the foreign key finds no post.
InsertCommentOfLoadedPost(db, pid, content, author) ==
  IF pid \in DOMAIN db.posts THEN InsertComment(db, pid, content, author) ELSE db

\* Model.save() of a Comment loaded earlier: UPDATE by primary key, else INSERT of
\* the instance, which the foreign key refuses when its post is gone.
SaveComment(db, cid, instance, validated) ==
  IF cid \in DOMAIN db.comments
    THEN [db EXCEPT !.comments[cid] =
            [post |-> instance.post, author |-> instance.author,
             content |-> validated["content"], created_at |-> instance.created_at]]
  ELSE IF instance.post \in DOMAIN db.posts
    THEN [db EXCEPT !.comments =
            [c \in DOMAIN db.comments \cup {cid} |->
               IF c = cid
                 THEN [post |-> instance.post, author |-> instance.author,
                       content |-> validated["content"], created_at |-> db.now]
                 ELSE db.comments[c]]]
  ELSE db

\* comment.delete() of a Comment loaded earlier.
DeleteLoadedComment(db, cid) ==
  IF cid \in DOMAIN db.comments THEN DeleteComment(db, cid) ELSE db

\* The store after the write of a handler that holds its request and instance.
WriteOf(db, handler) ==
  LET request == handler.request
  IN CASE handler.view = "post-detail" ->
            IF request.method = "DELETE"
              THEN DeleteLoadedPost(db, request.id)
              ELSE SavePost(db, request.id, handler.instance,
                            PostCreateUpdateSerializer(
                              request.data, request.method = "PATCH").validated)
       [] handler.view = "post-comments" ->
            InsertCommentOfLoadedPost(
              db, request.id,
              CommentCreateSerializer(request.data, FALSE).validated["content"],
              request.user)
       [] handler.view = "comment-detail" ->
            IF request.method = "DELETE"
              THEN DeleteLoadedComment(db, request.id)
              ELSE SaveComment(db, request.id, handler.instance,
                               CommentCreateSerializer(request.data, FALSE).validated)

\* POST posts/: there is no lookup before the insert.
RacePostListCreate ==
  \E request \in RacePostListRequests :
    \E response \in {PostListCreateView(DB, request)} :
      /\ WithinBounds(response.db)
      /\ posts' = response.db.posts
      /\ comments' = response.db.comments
      /\ nextPostId' = response.db.nextPostId
      /\ nextCommentId' = response.db.nextCommentId
      /\ now' = response.db.now
      /\ UNCHANGED handlers

\* PostDetailView.get_object() of a PUT or DELETE: the post is loaded and the
\* requester is its author.
LookUpPost ==
  \E h \in Handlers, request \in RacePostDetailRequests :
    /\ handlers[h].pc = "idle"
    /\ PassesLookup("post-detail", DB, request)
    /\ handlers' = [handlers EXCEPT ![h] =
                      [pc |-> "write", view |-> "post-detail", request |-> request,
                       instance |-> posts[request.id]]]
    /\ UNCHANGED <<posts, comments, nextPostId, nextCommentId, now>>

\* post_comments: get_object_or_404(Post, id=post_id) of a POST.
LookUpPostOfComment ==
  \E h \in Handlers, request \in RacePostCommentsRequests :
    /\ handlers[h].pc = "idle"
    /\ nextCommentId <= MaxComments
    /\ PassesLookup("post-comments", DB, request)
    /\ handlers' = [handlers EXCEPT ![h] =
                      [pc |-> "write", view |-> "post-comments", request |-> request,
                       instance |-> posts[request.id]]]
    /\ UNCHANGED <<posts, comments, nextPostId, nextCommentId, now>>

\* comment_detail: get_object_or_404(Comment, id=comment_id) and the comparison
\* of its author with the requester.
LookUpComment ==
  \E h \in Handlers, request \in RaceCommentDetailRequests :
    /\ handlers[h].pc = "idle"
    /\ PassesLookup("comment-detail", DB, request)
    /\ handlers' = [handlers EXCEPT ![h] =
                      [pc |-> "write", view |-> "comment-detail", request |-> request,
                       instance |-> comments[request.id]]]
    /\ UNCHANGED <<posts, comments, nextPostId, nextCommentId, now>>

\* A handler that passed its lookup writes and answers.
Write ==
  \E h \in Handlers :
    /\ handlers[h].pc = "write"
    /\ \E written \in {WriteOf(DB, handlers[h])} :
         /\ WithinBounds(written)
         /\ posts' = written.posts
         /\ comments' = written.comments
         /\ nextPostId' = written.nextPostId
         /\ nextCommentId' = written.nextCommentId
         /\ now' = written.now
    /\ handlers' = [handlers EXCEPT ![h] = Idle]

NextRace ==
  RacePostListCreate \/ LookUpPost \/ LookUpPostOfComment \/ LookUpComment \/ Write

SpecRace == Init /\ [][NextRace]_vars

(* ------------------------ properties: authorization ------------------- *)

\* A write to posts/<pk>/ of an existing post by a logged-in user who is not its author.
NonAuthorPostWrite(request) ==
  /\ request.method \in {"PUT", "PATCH", "DELETE"}
  /\ request.id \in DOMAIN posts
  /\ request.user \in Users
  /\ request.user # posts[request.id].author

\* C1: a PUT, PATCH or DELETE on an existing post by an authenticated requester other
\* than its author is answered 403 whatever the payload and leaves the whole store
\* (the post, its author, its comments) as it was; no request of any route sent by
\* someone other than a post's author changes or removes that post, and a post
\* disappears only through its author's DELETE on posts/<pk>/.
C1_NonAuthorPostWriteForbidden ==
  /\ \A request \in PostDetailRequests :
       NonAuthorPostWrite(request) =>
         PostDetailView(DB, request) = PermissionDenied(DB)
  /\ \A view \in Views : \A request \in RequestsTo(view) :
       \A response \in {urlpatterns(view, DB, request)} : \A p \in DOMAIN posts :
         /\ request.user # posts[p].author =>
              p \in DOMAIN response.db.posts /\ response.db.posts[p] = posts[p]
         /\ p \notin DOMAIN response.db.posts =>
              view = "post-detail" /\ request.method = "DELETE" /\ request.id = p

\* C1's case: a post with a comment, and a PUT with a payload that passes validation
\* sent by a logged-in non-author, answered 403.
C1_Witness ==
  \E request \in PostDetailRequests :
    /\ NonAuthorPostWrite(request)
    /\ request.method = "PUT"
    /\ request.data.json
    /\ PostCreateUpdateSerializer(request.data, FALSE).errors = {}
    /\ CommentsOf(DB, request.id) # {}
    /\ PostDetailView(DB, request).status = HTTP_403_FORBIDDEN

\* C2: every mutating request of an anonymous requester (POST posts/, PUT / PATCH /
\* DELETE on an existing post, POST on an existing post's comments, PUT / DELETE on
\* an existing comment) is answered 403 and leaves the store unchanged, and an
\* anonymous GET on posts/, on an existing post and on its comments is answered 200.
C2_AnonymousWriteForbiddenReadAllowed ==
  /\ \A request \in PostListRequests :
       request.user = AnonymousUser =>
         /\ request.method = "POST" =>
              PostListCreateView(DB, request) = PermissionDenied(DB)
         /\ request.method = "GET" =>
              PostListCreateView(DB, request).status = HTTP_200_OK
  /\ \A request \in PostDetailRequests :
       request.user = AnonymousUser /\ request.id \in DOMAIN posts =>
         /\ request.method \in {"PUT", "PATCH", "DELETE"} =>
              PostDetailView(DB, request) = PermissionDenied(DB)
         /\ request.method = "GET" => PostDetailView(DB, request).status = HTTP_200_OK
  /\ \A request \in PostCommentsRequests :
       request.user = AnonymousUser /\ request.id \in DOMAIN posts =>
         /\ request.method = "POST" =>
              post_comments(DB, request) = PermissionDenied(DB)
         /\ request.method = "GET" => post_comments(DB, request).status = HTTP_200_OK
  /\ \A request \in CommentDetailRequests :
       /\ request.user = AnonymousUser
       /\ request.id \in DOMAIN comments
       /\ request.method \in {"PUT", "DELETE"}
       => comment_detail(DB, request) = PermissionDenied(DB)

\* C2's case: a comment exists, an anonymous PUT with an accepted payload addresses it
\* and is answered 403, and the anonymous GET of its post is answered 200.
C2_Witness ==
  \E request \in CommentDetailRequests :
    /\ request.user = AnonymousUser
    /\ request.id \in DOMAIN comments
    /\ request.method = "PUT"
    /\ request.data.json
    /\ CommentCreateSerializer(request.data, FALSE).errors = {}
    /\ comment_detail(DB, request).status = HTTP_403_FORBIDDEN
    /\ PostDetailView(DB, [method |-> "GET", user |-> AnonymousUser,
                           id |-> comments[request.id].post,
                           data |-> EmptyPostBody]).status = HTTP_200_OK

\* A PUT or DELETE on an existing comment by a logged-in user who is not its author.
NonAuthorCommentWrite(request) ==
  /\ request.method \in {"PUT", "DELETE"}
  /\ request.id \in DOMAIN comments
  /\ request.user \in Users
  /\ request.user # comments[request.id].author

\* C3: PUT and DELETE on an existing comment by an authenticated non-author receive
\* one and the same 403 response, whatever the verb and whether or not the PUT
\* payload would pass validation, and the comment stays present and unchanged.
C3_NonAuthorCommentWriteSameRejection ==
  \A request \in CommentDetailRequests :
    NonAuthorCommentWrite(request) =>
      comment_detail(DB, request) =
        Response(HTTP_403_FORBIDDEN, {"error"}, NoBody, DB)

\* C3's case: a non-author's PUT whose content fails validation, answered 403.
C3_Witness ==
  \E request \in CommentDetailRequests :
    /\ NonAuthorCommentWrite(request)
    /\ request.method = "PUT"
    /\ request.data.json
    /\ CommentCreateSerializer(request.data, FALSE).errors = {"content"}
    /\ comment_detail(DB, request).status = HTTP_403_FORBIDDEN

(* ------------------- properties: creation and validation -------------- *)

\* The length rules as the specification words them, on the submitted value.
TrimmedLength(value) == Len(strip(value))
TitleOffending(data) ==
  data.title = NoField \/ TrimmedLength(data.title) < TitleMinLength
PostContentOffending(data) ==
  data.content = NoField \/ TrimmedLength(data.content) < PostContentMinLength
CommentContentOffending(data) ==
  data.content = NoField \/ TrimmedLength(data.content) < CommentContentMinLength
TitleTooLong(data) ==
  data.title # NoField /\ TrimmedLength(data.title) > TitleMaxLength
OffendingPostFields(data) ==
  {f \in {"title"} : TitleOffending(data)}
    \cup {f \in {"content"} : PostContentOffending(data)}

\* A post payload, a comment payload, that validation accepts.
ValidPostData(data) ==
  data.json /\ ~TitleOffending(data) /\ ~TitleTooLong(data) /\ ~PostContentOffending(data)
ValidCommentData(data) == data.json /\ ~CommentContentOffending(data)

\* A POST to posts/ by a logged-in user; a POST to an existing post's comments by one.
PostCreation(request) == request.method = "POST" /\ request.user \in Users
CommentCreation(request) ==
  request.method = "POST" /\ request.user \in Users /\ request.id \in DOMAIN posts

\* C4: a creation by an authenticated user with a payload that is otherwise valid
\* is answered 201 and stores exactly one new entity whose author is the requester
\* and (comment) whose post is the one in the URL; the response and the store are
\* the same as for the same body without its "author" and "post" keys.
C4_AuthorAndPostForcedOnCreate ==
  /\ \A request \in PostListRequests :
       PostCreation(request) /\ ValidPostData(request.data) =>
         \A response \in {PostListCreateView(DB, request)} :
           /\ response.status = HTTP_201_CREATED
           /\ DOMAIN response.db.posts = DOMAIN posts \cup {nextPostId}
           /\ nextPostId \notin DOMAIN posts
           /\ response.db.posts[nextPostId].author = request.user
           /\ response =
                PostListCreateView(DB, [request EXCEPT !.data.author = NoUser])
  /\ \A request \in PostCommentsRequests :
       CommentCreation(request) /\ ValidCommentData(request.data) =>
         \A response \in {post_comments(DB, request)} :
           /\ response.status = HTTP_201_CREATED
           /\ DOMAIN response.db.comments = DOMAIN comments \cup {nextCommentId}
           /\ nextCommentId \notin DOMAIN comments
           /\ response.db.comments[nextCommentId].author = request.user
           /\ response.db.comments[nextCommentId].post = request.id
           /\ response =
                post_comments(DB, [request EXCEPT !.data.author = NoUser,
                                                  !.data.post = NoId])

\* C4's case: u1 creates a post and, on post 1, a comment with bodies that name u2
\* as author and post 2 as the comment's post; both are answered 201.
C4_Witness ==
  /\ \E request \in PostListRequests :
       /\ PostCreation(request) /\ ValidPostData(request.data)
       /\ request.user = "u1" /\ request.data.author = "u2"
       /\ PostListCreateView(DB, request).status = HTTP_201_CREATED
  /\ \E request \in PostCommentsRequests :
       /\ CommentCreation(request) /\ ValidCommentData(request.data)
       /\ request.user = "u1" /\ request.data.author = "u2"
       /\ request.id = 1 /\ request.data.post = 2
       /\ post_comments(DB, request).status = HTTP_201_CREATED

GetPost(user, pid) ==
  [method |-> "GET", user |-> user, id |-> pid, data |-> EmptyPostBody]

\* The GET of posts/<post_id>/comments/ sent by a requester.
GetComments(user, pid) ==
  [method |-> "GET", user |-> user, id |-> pid, data |-> EmptyCommentBody]

\* C6 as claimed: for every title of trimmed length >= 2 and content of trimmed
\* length >= 5, POST posts/ by an authenticated user is answered 201, there is
\* exactly one post more, and the GET of the new id that follows is answered 200
\* with that title and that content.
C6_CreatedPostReadBackAsSubmitted ==
  \A request \in PostListRequests :
    /\ PostCreation(request) /\ request.data.json
    /\ OffendingPostFields(request.data) = {}
    => \A response \in {PostListCreateView(DB, request)} :
         /\ response.status = HTTP_201_CREATED
         /\ Cardinality(DOMAIN response.db.posts) = Cardinality(DOMAIN posts) + 1
         /\ \A user \in Requesters :
              \A reread \in {PostDetailView(response.db, GetPost(user, nextPostId))} :
                /\ reread.status = HTTP_200_OK
                /\ reread.body.title = request.data.title
                /\ reread.body.content = request.data.content

\* C6, amended: for every title of trimmed length from 2 to 200 and content of
\* trimmed length >= 5, POST posts/ by an authenticated user is answered 201, there
\* is exactly one post more, and the GET of the new id that follows is answered 200
\* with that title and that content stripped of leading and trailing whitespace.
C6_CreatedPostReadBackStripped ==
  \A request \in PostListRequests :
    PostCreation(request) /\ ValidPostData(request.data) =>
      \A response \in {PostListCreateView(DB, request)} :
        /\ response.status = HTTP_201_CREATED
        /\ Cardinality(DOMAIN response.db.posts) = Cardinality(DOMAIN posts) + 1
        /\ \A user \in Requesters :
             \A reread \in {PostDetailView(response.db, GetPost(user, nextPostId))} :
               /\ reread.status = HTTP_200_OK
               /\ reread.body.id = nextPostId
               /\ reread.body.title = strip(request.data.title)
               /\ reread.body.content = strip(request.data.content)

\* C6's case: a post is stored already, and the creation of a second one whose
\* title and content carry surrounding whitespace is answered 201.
C6_Witness ==
  /\ posts # <<>>
  /\ \E request \in PostListRequests :
       /\ PostCreation(request) /\ ValidPostData(request.data)
       /\ strip(request.data.title) # request.data.title
       /\ strip(request.data.content) # request.data.content
       /\ PostListCreateView(DB, request).status = HTTP_201_CREATED
       /\ PostDetailView(PostListCreateView(DB, request).db,
                         GetPost(AnonymousUser, nextPostId)).status = HTTP_200_OK

(* --------------------- properties: the author's writes ---------------- *)

\* A request to posts/<pk>/ of an existing post, to comments/<comment_id>/ of an
\* existing comment, sent by the entity's author.
AuthorPostRequest(request) ==
  request.id \in DOMAIN posts /\ request.user = posts[request.id].author
AuthorCommentRequest(request) ==
  request.id \in DOMAIN comments /\ request.user = comments[request.id].author

\* The author's DELETE is answered 204 and removes the entity, one row less.
AuthorDeleteSucceeds ==
  /\ \A request \in PostDetailRequests :
       AuthorPostRequest(request) /\ request.method = "DELETE" =>
         \A response \in {PostDetailView(DB, request)} :
           /\ response.status = HTTP_204_NO_CONTENT
           /\ request.id \notin DOMAIN response.db.posts
           /\ Cardinality(DOMAIN response.db.posts) = Cardinality(DOMAIN posts) - 1
  /\ \A request \in CommentDetailRequests :
       AuthorCommentRequest(request) /\ request.method = "DELETE" =>
         \A response \in {comment_detail(DB, request)} :
           /\ response.status = HTTP_204_NO_CONTENT
           /\ request.id \notin DOMAIN response.db.comments
           /\ Cardinality(DOMAIN response.db.comments) =
                Cardinality(DOMAIN comments) - 1

ReadBack(value, stripped) == IF stripped THEN strip(value) ELSE value

\* The author's PUT with a valid payload is answered 200, and what is read back (the
\* post by GET posts/<pk>/, the comment in GET posts/<post_id>/comments/) is the
\* submitted text, as it was sent or stripped of surrounding whitespace.
AuthorPutReadBack(stripped) ==
  /\ \A request \in PostDetailRequests :
       /\ AuthorPostRequest(request) /\ request.method = "PUT"
       /\ ValidPostData(request.data)
       => \A response \in {PostDetailView(DB, request)} :
            /\ response.status = HTTP_200_OK
            /\ \A user \in Requesters :
                 \A reread \in {PostDetailView(response.db, GetPost(user, request.id))} :
                   /\ reread.status = HTTP_200_OK
                   /\ reread.body.title = ReadBack(request.data.title, stripped)
                   /\ reread.body.content = ReadBack(request.data.content, stripped)
  /\ \A request \in CommentDetailRequests :
       /\ AuthorCommentRequest(request) /\ request.method = "PUT"
       /\ ValidCommentData(request.data)
       => \A response \in {comment_detail(DB, request)} :
            /\ response.status = HTTP_200_OK
            /\ DOMAIN response.db.comments = DOMAIN comments
            /\ \A user \in Requesters :
                 \A reread \in {post_comments(response.db,
                                              GetComments(user, comments[request.id].post))} :
                   /\ reread.status = HTTP_200_OK
                   /\ \A listing \in reread.body :
                        \E i \in DOMAIN listing :
                          /\ listing[i].id = request.id
                          /\ listing[i].content = ReadBack(request.data.content, stripped)

\* C7 as claimed: the author's PUT with a valid payload on an existing post or
\* comment is answered 200 and a reread shows exactly the submitted title and
\* content; the author's DELETE is answered 204, the entity is gone and there is
\* exactly one entity of its kind less.
C7_AuthorWriteReadBackAsSubmitted ==
  AuthorPutReadBack(FALSE) /\ AuthorDeleteSucceeds

\* C7, amended: the author's PUT with a valid payload on an existing post or comment
\* is answered 200 and a reread shows the submitted title and content stripped of
\* leading and trailing whitespace; the author's DELETE is answered 204, the entity
\* is gone and there is exactly one entity of its kind less.
C7_AuthorWriteReadBackStripped ==
  AuthorPutReadBack(TRUE) /\ AuthorDeleteSucceeds

\* C7's case: a comment whose author's PUT carries another content than the stored
\* one and is answered 200, on a post whose author's PUT carries another title and
\* is answered 200.
C7_Witness ==
  /\ \E request \in CommentDetailRequests :
       /\ AuthorCommentRequest(request) /\ request.method = "PUT"
       /\ ValidCommentData(request.data)
       /\ strip(request.data.content) # comments[request.id].content
       /\ comment_detail(DB, request).status = HTTP_200_OK
  /\ \E request \in PostDetailRequests :
       /\ AuthorPostRequest(request) /\ request.method = "PUT"
       /\ ValidPostData(request.data)
       /\ strip(request.data.title) # posts[request.id].title
       /\ PostDetailView(DB, request).status = HTTP_200_OK

(* ------------------------ properties: deletion ------------------------ *)

\* The ids the sequences have handed out whose rows are no longer stored.
DeletedPostIds == (1..(nextPostId - 1)) \ DOMAIN posts
DeletedCommentIds == (1..(nextCommentId - 1)) \ DOMAIN comments

\* Both GETs that address a post are answered 404 on the store db, for everyone.
PostIsGone(db, pid) ==
  \A user \in Requesters :
    /\ PostDetailView(db, GetPost(user, pid)).status = HTTP_404_NOT_FOUND
    /\ post_comments(db, GetComments(user, pid)).status = HTTP_404_NOT_FOUND

\* The author's DELETE of a post removes it with exactly the comments on it.
AuthorDeleteCascades ==
  \A request \in PostDetailRequests :
    AuthorPostRequest(request) /\ request.method = "DELETE" =>
      \A response \in {PostDetailView(DB, request)} :
        /\ response.status = HTTP_204_NO_CONTENT
        /\ DOMAIN response.db.comments = DOMAIN comments \ CommentsOf(DB, request.id)
        /\ \A c \in DOMAIN response.db.comments : response.db.comments[c] = comments[c]
        /\ PostIsGone(response.db, request.id)

\* C8: the author's DELETE of post P removes, in the same step, every comment on P
\* whoever wrote it and no comment of another post; from then on no comment
\* references P, P's id is never stored again, and every GET on posts/P/ and on
\* posts/P/comments/ is answered 404.
C8_PostDeleteCascades ==
  /\ [](/\ AuthorDeleteCascades
        /\ \A p \in DeletedPostIds : CommentsOf(DB, p) = {} /\ PostIsGone(DB, p))
  /\ [][\A p \in DeletedPostIds : p \notin DOMAIN posts']_vars

\* C8's case: the author's DELETE of a post that carries a comment written by
\* someone else, while another post carries a comment too, answered 204.
C8_Witness ==
  \E request \in PostDetailRequests :
    /\ AuthorPostRequest(request) /\ request.method = "DELETE"
    /\ \E c \in CommentsOf(DB, request.id) : comments[c].author # request.user
    /\ \E c \in DOMAIN comments : comments[c].post # request.id
    /\ PostDetailView(DB, request).status = HTTP_204_NO_CONTENT

\* A request to comments/<comment_id>/ with any payload.
ToComment(method, user, cid, data) ==
  [method |-> method, user |-> user, id |-> cid, data |-> data]

\* The comment ids that the author's DELETE of a post is about to remove.
CascadedComments(request) ==
  IF AuthorPostRequest(request) /\ request.method = "DELETE"
    THEN CommentsOf(DB, request.id) ELSE {}

\* C9 as claimed: after a post has been deleted, a GET of comments/<id>/ for a
\* former comment of it is answered 404 for every requester.
C9_FormerCommentGetNotFound ==
  \A request \in PostDetailRequests : \A c \in CascadedComments(request) :
    \A user \in Requesters :
      comment_detail(PostDetailView(DB, request).db,
                     ToComment("GET", user, c, EmptyCommentBody)).status
        = HTTP_404_NOT_FOUND

\* What comments/<id>/ answers for an id that is not stored: 404 to the PUT and the
\* DELETE of an authenticated requester whatever the payload, 405 to an
\* authenticated GET, 403 to every anonymous request.
FormerCommentAnswers(db, c) ==
  /\ \A user \in Users : \A data \in CommentBodies :
       comment_detail(db, ToComment("PUT", user, c, data)) = NotFound(db)
  /\ \A user \in Users :
       /\ comment_detail(db, ToComment("DELETE", user, c, EmptyCommentBody))
            = NotFound(db)
       /\ comment_detail(db, ToComment("GET", user, c, EmptyCommentBody)).status
            = HTTP_405_METHOD_NOT_ALLOWED
  /\ \A method \in {"GET", "PUT", "DELETE"} :
       comment_detail(db, ToComment(method, AnonymousUser, c, EmptyCommentBody)).status
         = HTTP_403_FORBIDDEN

\* C9, amended: after a post has been deleted, the id of each of its former comments
\* is never stored again, and comments/<id>/ never answers a GET with 404: it
\* answers 404 to a PUT or DELETE of an authenticated requester, 405 to an
\* authenticated GET and 403 to every anonymous request.
C9_FormerCommentAnswers ==
  /\ [](/\ \A request \in PostDetailRequests : \A c \in CascadedComments(request) :
             FormerCommentAnswers(PostDetailView(DB, request).db, c)
        /\ \A c \in DeletedCommentIds : FormerCommentAnswers(DB, c))
  /\ [][\A c \in DeletedCommentIds : c \notin DOMAIN comments']_vars

\* C9's case: the author's DELETE of a post that carries a comment written by
\* someone else; afterwards that comment's id is answered 404 to its writer's PUT
\* with a valid payload, 405 to the writer's GET and 403 to an anonymous GET.
C9_Witness ==
  \E request \in PostDetailRequests : \E c \in CascadedComments(request) :
    \E data \in CommentBodies : \E after \in {PostDetailView(DB, request).db} :
      /\ comments[c].author # request.user
      /\ ValidCommentData(data)
      /\ comment_detail(after, ToComment("PUT", comments[c].author, c, data)).status
           = HTTP_404_NOT_FOUND
      /\ comment_detail(after, ToComment("GET", comments[c].author, c,
                                         EmptyCommentBody)).status
           = HTTP_405_METHOD_NOT_ALLOWED
      /\ comment_detail(after, ToComment("GET", AnonymousUser, c,
                                         EmptyCommentBody)).status
           = HTTP_403_FORBIDDEN

(* ------------------------ properties: unknown ids --------------------- *)

\* The requests that address an id of no stored entity with a verb the route serves.
UnknownTargetRequests(view) ==
  CASE view = "post-detail" ->
         {r \in PostDetailRequests :
            r.id \notin DOMAIN posts /\ r.method \in {"GET", "PUT", "PATCH", "DELETE"}}
    [] view = "post-comments" ->
         {r \in PostCommentsRequests :
            r.id \notin DOMAIN posts /\ r.method \in {"GET", "POST"}}
    [] view = "comment-detail" ->
         {r \in CommentDetailRequests :
            r.id \notin DOMAIN comments /\ r.method \in {"PUT", "DELETE"}}

DetailViews == {"post-detail", "post-comments", "comment-detail"}

\* C10 as claimed: on the three routes with an id, a request whose id resolves to no
\* entity is answered 404 for every verb the route serves and every requester,
\* the anonymous one included.
C10_UnknownIdNotFoundForAll ==
  \A view \in DetailViews : \A request \in UnknownTargetRequests(view) :
    urlpatterns(view, DB, request).status = HTTP_404_NOT_FOUND

\* C10, amended: the route's permission check precedes the target lookup, which
\* precedes the ownership check and validation: a request whose id resolves to no
\* entity is answered 404, whatever its payload, for every verb the route serves
\* when the requester is authenticated or the verb is GET, and 403 when an
\* anonymous requester sends POST, PUT, PATCH or DELETE; the store is unchanged.
C10_UnknownIdAfterPermissionCheck ==
  \A view \in DetailViews : \A request \in UnknownTargetRequests(view) :
    urlpatterns(view, DB, request) =
      IF request.user = AnonymousUser /\ request.method # "GET"
        THEN PermissionDenied(DB) ELSE NotFound(DB)

\* C10's case: with a post stored and another deleted, the deleted id is answered
\* 404 to its former author's PUT with a valid payload and 403 to an anonymous PUT.
C10_Witness ==
  /\ posts # <<>>
  /\ \E request \in UnknownTargetRequests("post-detail") :
       /\ request.id \in DeletedPostIds
       /\ request.method = "PUT" /\ ValidPostData(request.data)
       /\ request.user \in Users
       /\ PostDetailView(DB, request).status = HTTP_404_NOT_FOUND
       /\ PostDetailView(DB, [request EXCEPT !.user = AnonymousUser]).status
            = HTTP_403_FORBIDDEN

(* ------------------------ properties: rejections ---------------------- *)

\* The statuses of a rejected request.
Rejections == {HTTP_400_BAD_REQUEST, HTTP_403_FORBIDDEN, HTTP_404_NOT_FOUND}

\* A PUT by the post's author whose title is valid and new and whose content is
\* too short.
HalfValidUpdate(request) ==
  /\ request.id \in DOMAIN posts
  /\ request.method = "PUT"
  /\ request.user = posts[request.id].author
  /\ request.data.json
  /\ ~TitleOffending(request.data) /\ ~TitleTooLong(request.data)
  /\ strip(request.data.title) # posts[request.id].title
  /\ request.data.content # NoField /\ PostContentOffending(request.data)

\* C11: every request answered with 400, 403 or 404 leaves the store exactly as
\* it was: both tables with every field of every row (updated_at too) and both id
\* sequences, whichever route it went to and however long it took.
C11_RejectedRequestLeavesStore ==
  \A view \in Views :
    \A request \in RequestsTo(view), elapsed \in ClockSteps :
      \A response \in {urlpatterns(view, During(DB, elapsed), request)} :
        response.status \in Rejections => response.db = During(DB, elapsed)

\* A post last saved before the present time, to which its author sends a PUT
\* with a new valid title and a content that is too short: the answer is 400
\* and the title and updated_at are the stored ones.
C11_Witness ==
  \E request \in PostDetailRequests :
    /\ HalfValidUpdate(request)
    /\ posts[request.id].updated_at < now
    /\ \E response \in {PostDetailView(DB, request)} :
         /\ response.status = HTTP_400_BAD_REQUEST
         /\ response.errors = {"content"}
         /\ response.db.posts[request.id] = posts[request.id]

(* -------------------------- properties: ordering ---------------------- *)

\* The ids a listing shows, in its order.
ListedIds(listing) == [i \in DOMAIN listing |-> listing[i].id]

\* The listing shows exactly the rows S, each once.
ListsExactly(listing, S) ==
  /\ Len(listing) = Cardinality(S)
  /\ {listing[i].id : i \in DOMAIN listing} = S

NewestFirst(listing) ==
  \A i, j \in DOMAIN listing : i < j => listing[i].created_at >= listing[j].created_at

OldestFirst(listing) ==
  \A i, j \in DOMAIN listing : i < j => listing[i].created_at <= listing[j].created_at

\* Row x comes before row y in the listing.
ListedBefore(listing, x, y) ==
  \E i, j \in DOMAIN listing : i < j /\ listing[i].id = x /\ listing[j].id = y

\* Both listings show the same rows, and any two of them whose created_at differ
\* in the same mutual order.
SameOrderOfDistinctTimes(before, after) ==
  /\ {before[i].id : i \in DOMAIN before} = {after[i].id : i \in DOMAIN after}
  /\ \A i, j \in DOMAIN before :
       before[i].created_at # before[j].created_at =>
         (ListedBefore(before, before[i].id, before[j].id)
            <=> ListedBefore(after, before[i].id, before[j].id))

\* Every listing the three reading routes can answer with is complete and in its
\* order: the posts newest first, a post's comments (on their own route and nested
\* in the post) oldest first.
ListingsOrdered ==
  \A user \in Requesters :
    /\ \A response \in {PostListCreateView(DB, GetPost(user, NoId))} :
         /\ response.status = HTTP_200_OK
         /\ response.body # {}
         /\ \A listing \in response.body :
              ListsExactly(listing, DOMAIN posts) /\ NewestFirst(listing)
    /\ \A p \in DOMAIN posts :
         /\ \A response \in {post_comments(DB, GetComments(user, p))} :
              /\ response.status = HTTP_200_OK
              /\ response.body # {}
              /\ \A listing \in response.body :
                   ListsExactly(listing, CommentsOf(DB, p)) /\ OldestFirst(listing)
         /\ \A response \in {PostDetailView(DB, GetPost(user, p))} :
              /\ response.status = HTTP_200_OK
              /\ response.body.comments # {}
              /\ \A listing \in response.body.comments :
                   ListsExactly(listing, CommentsOf(DB, p)) /\ OldestFirst(listing)

\* The successful updates: PUT and PATCH of a post, PUT of a comment.
SuccessfulUpdates ==
  { u \in [view : {"post-detail", "comment-detail"},
           request : PostDetailRequests \cup CommentDetailRequests] :
      /\ u.request \in RequestsTo(u.view)
      /\ u.request.method \in {"PUT", "PATCH"}
      /\ urlpatterns(u.view, DB, u.request).status = HTTP_200_OK }

\* Every listing of every route after an update, against every listing before it.
\* identical: the two listings are the same sequence of ids; otherwise they agree
\* on the rows whose created_at differ.
UpdateKeepsListings(identical) ==
  \A u \in SuccessfulUpdates :
    \A after \in {urlpatterns(u.view, DB, u.request).db} :
      /\ \A before \in PostListData(DB), later \in PostListData(after) :
           IF identical THEN ListedIds(before) = ListedIds(later)
                        ELSE SameOrderOfDistinctTimes(before, later)
      /\ \A p \in DOMAIN posts :
           \A before \in CommentListData(DB, p), later \in CommentListData(after, p) :
             IF identical THEN ListedIds(before) = ListedIds(later)
                          ELSE SameOrderOfDistinctTimes(before, later)

\* C12 as stated: the listings are complete and ordered by created_at, and an
\* update of a post or a comment leaves every row at its position in them.
C12_ListingsOrderedPositionsFixed ==
  ListingsOrdered /\ UpdateKeepsListings(TRUE)

\* C12: the listings are complete and ordered by created_at (posts newest first,
\* a post's comments oldest first), and an update of a post or a comment changes
\* neither the rows listed nor the mutual order of two rows whose created_at
\* differ.
C12_ListingsOrderedByCreation ==
  ListingsOrdered /\ UpdateKeepsListings(FALSE)

\* Two posts and two comments of one post, created at different times, and the
\* author of the older post updating it after the newer one was created: the
\* newer post is still listed first.
C12_Witness ==
  \E p, q \in DOMAIN posts, c, d \in DOMAIN comments :
    /\ posts[p].created_at < posts[q].created_at
    /\ comments[c].post = comments[d].post
    /\ comments[c].created_at < comments[d].created_at
    /\ \E u \in SuccessfulUpdates :
         /\ u.view = "post-detail" /\ u.request.id = p
         /\ \A later \in PostListData(urlpatterns(u.view, DB, u.request).db) :
              /\ ListedBefore(later, q, p)
              /\ later[2].updated_at > later[2].created_at
    /\ \A listing \in CommentListData(DB, comments[c].post) :
         ListedBefore(listing, c, d)

(* ----------------------- properties: fixed attributes ----------------- *)

\* The rows both stores hold have the attributes assigned at creation in common:
\* a post its author and created_at, a comment its author, post and created_at.
CreationAttributesKept(before, after) ==
  /\ \A p \in DOMAIN before.posts \cap DOMAIN after.posts :
       /\ after.posts[p].author = before.posts[p].author
       /\ after.posts[p].created_at = before.posts[p].created_at
  /\ \A c \in DOMAIN before.comments \cap DOMAIN after.comments :
       /\ after.comments[c].author = before.comments[c].author
       /\ after.comments[c].post = before.comments[c].post
       /\ after.comments[c].created_at = before.comments[c].created_at

\* The store after the step.
DBNext ==
  [posts |-> posts', comments |-> comments', nextPostId |-> nextPostId',
   nextCommentId |-> nextCommentId', now |-> now', elapsed |-> 0]

\* C13: the author and created_at of every post and the author, post and
\* created_at of every comment keep their values for as long as the row exists:
\* no request of any route, whatever its method and whatever keys its body
\* carries, and no step of a run changes them.
C13_CreationAttributesImmutable ==
  /\ [](\A view \in Views :
          \A request \in RequestsTo(view) :
            CreationAttributesKept(DB, urlpatterns(view, DB, request).db))
  /\ [][CreationAttributesKept(DB, DBNext)]_vars

\* A post and a comment created before the present time, whose authors send a
\* valid PUT that names another author (and, for the comment, another post):
\* both are answered 200, the rows keep author, post and created_at, and the
\* post's updated_at is the present time.
C13_Witness ==
  \E p \in DOMAIN posts, c \in DOMAIN comments :
    /\ posts[p].created_at < now /\ comments[c].created_at < now
    /\ \E request \in PostDetailRequests :
         /\ request.id = p /\ request.method = "PUT"
         /\ request.user = posts[p].author
         /\ request.data.author \notin {NoUser, posts[p].author}
         /\ \E response \in {PostDetailView(DB, request)} :
              /\ response.status = HTTP_200_OK
              /\ response.db.posts[p].author = posts[p].author
              /\ response.db.posts[p].created_at = posts[p].created_at
              /\ response.db.posts[p].updated_at = now
    /\ \E request \in CommentDetailRequests :
         /\ request.id = c /\ request.method = "PUT"
         /\ request.user = comments[c].author
         /\ request.data.author \notin {NoUser, comments[c].author}
         /\ request.data.post \notin {NoId, comments[c].post}
         /\ \E response \in {comment_detail(DB, request)} :
              /\ response.status = HTTP_200_OK
              /\ response.db.comments[c].author = comments[c].author
              /\ response.db.comments[c].post = comments[c].post
              /\ response.db.comments[c].created_at = comments[c].created_at

(* ------------------------- properties: updated_at --------------------- *)

\* A PUT or PATCH of posts/<pk>/ that is answered 200.
SuccessfulPostUpdate(request, response) ==
  request.method \in {"PUT", "PATCH"} /\ response.status = HTTP_200_OK

\* A post created while the clock moves on by elapsed: created_at is the time of
\* the request; updated_at is the same time (sameTime) or not before it.
UpdatedAtOnCreation(sameTime) ==
  \A request \in PostListRequests, elapsed \in ClockSteps :
    \A response \in {PostListCreateView(During(DB, elapsed), request)} :
      response.status = HTTP_201_CREATED =>
        /\ DOMAIN response.db.posts = DOMAIN posts \cup {nextPostId}
        /\ response.db.posts[nextPostId].created_at = now
        /\ IF sameTime
             THEN response.db.posts[nextPostId].updated_at = now
             ELSE /\ response.db.posts[nextPostId].updated_at >= now
                  /\ response.db.posts[nextPostId].updated_at = response.db.now
        /\ \A p \in DOMAIN posts : response.db.posts[p] = posts[p]

\* Every successful PUT or PATCH of a post sets its updated_at to the present
\* time, which is not before the stored one, and touches no other post.
UpdatedAtRefreshed ==
  \A request \in PostDetailRequests :
    \A response \in {PostDetailView(DB, request)} :
      SuccessfulPostUpdate(request, response) =>
        /\ response.db.posts[request.id].updated_at = now
        /\ response.db.posts[request.id].updated_at >= posts[request.id].updated_at
        /\ \A p \in DOMAIN posts \ {request.id} :
             response.db.posts[p].updated_at = posts[p].updated_at

\* Every other request: a GET, a request that is rejected, and whatever goes to
\* the two comment routes leaves updated_at of every post that stays stored.
UpdatedAtKept ==
  \A view \in Views :
    \A request \in RequestsTo(view) :
      \A response \in {urlpatterns(view, DB, request)} :
        (\/ request.method = "GET"
         \/ response.status \in Rejections
         \/ view \in {"post-comments", "comment-detail"})
          => \A p \in DOMAIN posts \cap DOMAIN response.db.posts :
               response.db.posts[p].updated_at = posts[p].updated_at

\* No post is saved before it was created or after the present time, and no step
\* of a run takes updated_at back.
UpdatedAtNeverDecreases ==
  /\ [](\A p \in DOMAIN posts :
          posts[p].created_at <= posts[p].updated_at /\ posts[p].updated_at <= now)
  /\ [][\A p \in DOMAIN posts \cap DOMAIN posts' :
          posts'[p].updated_at >= posts[p].updated_at]_vars

\* C14 as stated: updated_at equals created_at at creation, is refreshed to the
\* present time by every successful PUT or PATCH of the post, never decreases,
\* and is left alone by every rejected request, every GET and every request to
\* the post's comments.
C14_UpdatedAtEqualsCreatedAtThenRefreshed ==
  /\ [](UpdatedAtOnCreation(TRUE) /\ UpdatedAtRefreshed /\ UpdatedAtKept)
  /\ UpdatedAtNeverDecreases

\* C14: updated_at is not before created_at at creation (it is read from the
\* clock after created_at), is refreshed to the present time by every successful
\* PUT or PATCH of the post, never decreases, and is left alone by every rejected
\* request, every GET and every request to the post's comments.
C14_UpdatedAtNotBeforeCreatedAtThenRefreshed ==
  /\ [](UpdatedAtOnCreation(FALSE) /\ UpdatedAtRefreshed /\ UpdatedAtKept)
  /\ UpdatedAtNeverDecreases

\* A post last saved before the present time, with a comment on it: its author
\* sends a PUT with the stored title and content and updated_at becomes the
\* present time; a new comment on it and the removal of the stored comment leave
\* updated_at; and a post created now while the clock moves on is stamped with
\* an updated_at after its created_at.
C14_Witness ==
  /\ \E request \in PostDetailRequests :
       /\ request.id \in DOMAIN posts /\ request.method = "PUT"
       /\ posts[request.id].updated_at < now
       /\ request.data.json
       /\ request.data.title # NoField /\ request.data.content # NoField
       /\ strip(request.data.title) = posts[request.id].title
       /\ strip(request.data.content) = posts[request.id].content
       /\ \E response \in {PostDetailView(DB, request)} :
            /\ response.status = HTTP_200_OK
            /\ response.db.posts[request.id].updated_at = now
            /\ response.db.posts[request.id].title = posts[request.id].title
       /\ \E create \in PostCommentsRequests, c \in CommentsOf(DB, request.id) :
            /\ create.id = request.id
            /\ post_comments(DB, create).status = HTTP_201_CREATED
            /\ post_comments(DB, create).db.posts[request.id] = posts[request.id]
            /\ \E delete \in CommentDetailRequests :
                 /\ delete.id = c
                 /\ comment_detail(DB, delete).status = HTTP_204_NO_CONTENT
                 /\ comment_detail(DB, delete).db.posts[request.id] = posts[request.id]
  /\ \E request \in PostListRequests :
       \E response \in {PostListCreateView(During(DB, 1), request)} :
         /\ response.status = HTTP_201_CREATED
         /\ response.db.posts[nextPostId].updated_at
              > response.db.posts[nextPostId].created_at

(* ------------------------ properties: stored text --------------------- *)

\* Each validate_<field> hands back the very string it was given whenever it
\* accepts it, surrounding whitespace included.
ValidatorsReturnArgument ==
  /\ \A value \in TitleInputs \ {NoField} :
       validate_title(value).ok => validate_title(value).value = value
  /\ \A value \in PostContentInputs \ {NoField} :
       validate_post_content(value).ok => validate_post_content(value).value = value
  /\ \A value \in CommentContentInputs \ {NoField} :
       validate_comment_content(value).ok
         => validate_comment_content(value).value = value

\* Every write that passes validation stores and returns, for each field its
\* body carries, the submitted string: as it was sent, or stripped of leading and
\* trailing whitespace.  A field a PATCH leaves out keeps the stored value.
AcceptedTextStored(stripped) ==
  /\ \A request \in PostListRequests :
       \A response \in {PostListCreateView(DB, request)} :
         response.status = HTTP_201_CREATED =>
           /\ response.db.posts[nextPostId].title
                = ReadBack(request.data.title, stripped)
           /\ response.db.posts[nextPostId].content
                = ReadBack(request.data.content, stripped)
           /\ response.body.title = ReadBack(request.data.title, stripped)
           /\ response.body.content = ReadBack(request.data.content, stripped)
  /\ \A request \in PostDetailRequests :
       \A response \in {PostDetailView(DB, request)} :
         request.method \in {"PUT", "PATCH"} /\ response.status = HTTP_200_OK =>
           /\ response.db.posts[request.id].title
                = IF request.data.title = NoField
                    THEN posts[request.id].title
                    ELSE ReadBack(request.data.title, stripped)
           /\ response.db.posts[request.id].content
                = IF request.data.content = NoField
                    THEN posts[request.id].content
                    ELSE ReadBack(request.data.content, stripped)
           /\ response.body.title = response.db.posts[request.id].title
           /\ response.body.content = response.db.posts[request.id].content
  /\ \A request \in PostCommentsRequests :
       \A response \in {post_comments(DB, request)} :
         response.status = HTTP_201_CREATED =>
           /\ response.db.comments[nextCommentId].content
                = ReadBack(request.data.content, stripped)
           /\ response.body.content = ReadBack(request.data.content, stripped)
  /\ \A request \in CommentDetailRequests :
       \A response \in {comment_detail(DB, request)} :
         request.method = "PUT" /\ response.status = HTTP_200_OK =>
           /\ response.db.comments[request.id].content
                = ReadBack(request.data.content, stripped)
           /\ response.body.content = ReadBack(request.data.content, stripped)

\* C15 as stated: the validators trim for the length check only, and a value that
\* passes validation is stored and returned as the submitted string unchanged,
\* leading and trailing whitespace included.
C15_AcceptedTextStoredAsSubmitted ==
  ValidatorsReturnArgument /\ AcceptedTextStored(FALSE)

\* C15: the validators trim for the length check only and hand back their
\* argument unchanged; the argument is the submitted string already stripped by
\* the serializer field, so a value that passes validation is stored and
\* returned without its leading and trailing whitespace.
C15_AcceptedTextStoredStripped ==
  ValidatorsReturnArgument /\ AcceptedTextStored(TRUE)

\* A stored post with a comment: its author's PATCH of the title alone and the
\* comment author's PUT, both with surrounding whitespace, are answered 200 and
\* the rows hold the texts without it; the post's content is the stored one.
C15_Witness ==
  \E request \in PostDetailRequests, put \in CommentDetailRequests :
    /\ request.id \in DOMAIN posts /\ request.method = "PATCH"
    /\ request.data.json /\ request.data.content = NoField
    /\ request.data.title # NoField
    /\ strip(request.data.title) # request.data.title
    /\ \E response \in {PostDetailView(DB, request)} :
         /\ response.status = HTTP_200_OK
         /\ response.db.posts[request.id].title = strip(request.data.title)
         /\ response.db.posts[request.id].title # posts[request.id].title
         /\ response.db.posts[request.id].content = posts[request.id].content
    /\ put.id \in CommentsOf(DB, request.id) /\ put.method = "PUT"
    /\ put.data.json /\ put.data.content # NoField
    /\ strip(put.data.content) # put.data.content
    /\ \E response \in {comment_detail(DB, put)} :
         /\ response.status = HTTP_200_OK
         /\ response.body.content = strip(put.data.content)
         /\ response.db.comments[put.id].content # comments[put.id].content

(* ------------------------ properties: concurrency --------------------- *)

\* Every stored comment references a post that is stored.
CommentsReferenceStoredPosts ==
  \A c \in DOMAIN comments : comments[c].post \in DOMAIN posts

\* No row that was deleted is stored again after the step.
DeletedRowsStayDeleted ==
  /\ \A p \in DeletedPostIds : p \notin DOMAIN posts'
  /\ \A c \in DeletedCommentIds : c \notin DOMAIN comments'

\* C16: under any interleaving of the lookups and the writes of concurrent
\* requests, every stored comment references a stored post, and no post or
\* comment that was deleted becomes present again.
C16_NoOrphanNoResurrection ==
  []CommentsReferenceStoredPosts /\ [][DeletedRowsStayDeleted]_vars

====
